---- MODULE Spec2Model ----
(***************************************************************************)
(* MindMirror: the AI Analysis Gateway of src/server/gemini.js.            *)
(*                                                                         *)
(* gemini.js holds two versions of the gateway.  Version "A" (lines 1-265) *)
(* accepts audio and text and wraps the model call in retryWithBackoff;    *)
(* version "B" (lines 267-393) is text-only and calls the model through    *)
(* callGemini.  Both are modelled; `variant` says which one is running.    *)
(*                                                                         *)
(* Strings are modelled as sequences of tokens.  An error message is a     *)
(* sequence of phrases, and String.prototype.includes is membership of a   *)
(* phrase.  A model output is a sequence over Alphabet, where a token      *)
(* stands for a run of characters that the fence regular expression and    *)
(* JSON.parse treat as a unit.                                             *)
(***************************************************************************)
EXTENDS Integers, Sequences, FiniteSets, TLC

VARIABLES
    variant,      \* "A" or "B": which version of gemini.js runs
    op,           \* the operation under way
    input,        \* its arguments
    pc,           \* position of the running call
    maxRetries,   \* retryWithBackoff: parameter
    initialDelay, \* retryWithBackoff: parameter
    attempt,      \* retryWithBackoff: loop counter
    lastError,    \* retryWithBackoff: local variable
    calls,        \* what each invocation of fn did, in order
    raised,       \* the error raised by the most recent invocation of fn
    sleeps,       \* the delays passed to sleep(), in order
    retryOut,     \* how retryWithBackoff / model.generateContent ended
    result,       \* how the gateway operation ended
    runtime,      \* how the JavaScript runtime words the SyntaxError of JSON.parse
    store,        \* the documents of the collection 'reflections'
    usedIds,      \* the document ids the store has handed out
    clock,        \* the server's clock (new Date())
    reqs,         \* per client: the HTTP request under way and its response
    mode,         \* process.env.NODE_ENV of the server
    recorder,     \* the AudioRecorder component
    voice,        \* the VoiceRecorder component
    page          \* the Reflect page

vars == <<variant, op, input, pc, maxRetries, initialDelay, attempt,
          lastError, calls, raised, sleeps, retryOut, result, runtime,
          store, usedIds, clock, reqs, mode, recorder, voice, page>>

\* The state of one gateway call, and the state of the routes.
gatewayVars == <<op, input, pc, maxRetries, initialDelay, attempt,
                 lastError, calls, raised, sleeps, retryOut, result, runtime>>
routeVars == <<store, usedIds, clock, reqs, mode>>

\* The state of the components of the browser client.
clientVars == <<recorder, voice, page>>

(***************************************************************************)
(* Bounds of the model.                                                    *)
(***************************************************************************)
MaxRetriesBound == 4
MaxTextLen == 4
MaxReflections == 3
MaxDocs == 2
MaxStored == 9
MaxElapsed == 63

(***************************************************************************)
(* Program constants.                                                      *)
(***************************************************************************)
DefaultMaxRetries == 3
DefaultInitialDelay == 2000
MinReflections == 3
DefaultLimit == 7
WeeklyLimit == 7
WeeklyMinimum == 3
MaxDuration == 60

\* ------------------------------------------------------------------------
\* Model output text and the Response Extractor
\* ------------------------------------------------------------------------

FENCE == "fence"
WORD == "json"
WS == "ws"
QUOTE == "quote"
JUNK == "junk"
CODE == "code429"
EMPTYOBJ == "emptyobj"
RECORD == "record"

\* FENCE is a run of three backticks, WORD the letters json, WS a run of
\* whitespace, QUOTE a double quote and JUNK a letter that is no JSON.
\* CODE is a word that is no JSON and has the digits 429 in it, as Error429.
\* RECORD is a JSON object with the six fields of the daily prompt and the
\* transcript t1; EMPTYOBJ is the JSON object with no field.
Alphabet == {FENCE, WORD, WS, QUOTE, JUNK, CODE, EMPTYOBJ, RECORD}

Texts(n) == UNION {[1..k -> Alphabet] : k \in 0..n}

SixFields == {"transcript", "primaryEmotion", "secondaryEmotion", "theme",
              "emotionalIntensity", "dailyInsight"}

NoValue == [type |-> "undefined", fields |-> {}, transcript |-> "", content |-> <<>>]

\* Index of the first occurrence of tok in text at or after from; 0 if none.
IndexOf(text, tok, from) ==
    LET S == {i \in from..Len(text) : text[i] = tok}
    IN  IF S = {} THEN 0 ELSE CHOOSE i \in S : \A j \in S : i <= j

\* Index of the first token of text at or after from that is not whitespace;
\* Len(text)+1 if none.
SkipWs(text, from) ==
    LET S == {i \in from..Len(text) : text[i] # WS}
    IN  IF S = {} THEN Len(text) + 1 ELSE CHOOSE i \in S : \A j \in S : i <= j

\* String.prototype.trim
Trim(str) ==
    LET S == {i \in 1..Len(str) : str[i] # WS}
    IN  IF S = {} THEN <<>>
        ELSE SubSeq(str, CHOOSE i \in S : \A j \in S : i <= j,
                         CHOOSE i \in S : \A j \in S : i >= j)

\* The fence match of version A (fence, optional json, optional whitespace,
\* lazy group, fence; not anchored): the leftmost fence that has a later
\* fence; the optional word and the whitespace are consumed greedily and the
\* group ends lazily before the next fence.
MatchFenceA(text) ==
    LET open  == IndexOf(text, FENCE, 1)
        close == IF open = 0 THEN 0 ELSE IndexOf(text, FENCE, open + 1)
        afterWord == IF close # 0 /\ text[open + 1] = WORD THEN open + 2 ELSE open + 1
        start == SkipWs(text, afterWord)
    IN  IF close = 0 THEN [matched |-> FALSE, group |-> <<>>]
        ELSE [matched |-> TRUE, group |-> SubSeq(text, start, close - 1)]

\* The fence match of version B: the same without the optional whitespace.
MatchFenceB(text) ==
    LET open  == IndexOf(text, FENCE, 1)
        close == IF open = 0 THEN 0 ELSE IndexOf(text, FENCE, open + 1)
        start == IF close # 0 /\ text[open + 1] = WORD THEN open + 2 ELSE open + 1
    IN  IF close = 0 THEN [matched |-> FALSE, group |-> <<>>]
        ELSE [matched |-> TRUE, group |-> SubSeq(text, start, close - 1)]

\* The string handed to JSON.parse: the group of the match if there is one,
\* the whole text otherwise, trimmed.
JsonStrA(text) ==
    LET m == MatchFenceA(text)
    IN  Trim(IF m.matched THEN m.group ELSE text)

JsonStrB(text) ==
    LET m == MatchFenceB(text)
    IN  Trim(IF m.matched THEN m.group ELSE text)

\* Tokens that may stand inside a JSON string literal: RECORD holds double
\* quotes of its own and QUOTE ends the literal.
InString(tok) == tok \notin {QUOTE, RECORD}

IsStringLiteral(str) ==
    /\ Len(str) >= 2
    /\ str[1] = QUOTE
    /\ str[Len(str)] = QUOTE
    /\ \A i \in 2..(Len(str) - 1) : InString(str[i])

\* The value of a JSON document without surrounding whitespace.
ParseDocument(doc) ==
    IF doc = <<RECORD>> THEN
        [ok |-> TRUE,
         value |-> [type |-> "object", fields |-> SixFields,
                    transcript |-> "t1", content |-> <<>>]]
    ELSE IF doc = <<EMPTYOBJ>> THEN
        [ok |-> TRUE,
         value |-> [type |-> "object", fields |-> {},
                    transcript |-> "", content |-> <<>>]]
    ELSE IF IsStringLiteral(doc) THEN
        [ok |-> TRUE,
         value |-> [type |-> "string", fields |-> {}, transcript |-> "",
                    content |-> SubSeq(doc, 2, Len(doc) - 1)]]
    ELSE [ok |-> FALSE, value |-> NoValue]

\* JSON.parse: whitespace around the document is allowed; ok = FALSE stands
\* for the SyntaxError it throws.
JSONParse(str) == ParseDocument(Trim(str))

\* ------------------------------------------------------------------------
\* Errors
\* ------------------------------------------------------------------------

\* An error object: `at` is the index of the invocation that raised it (each
\* invocation raises an object of its own), `message` its message as a
\* sequence of phrases, hasMessage = FALSE when error.message is undefined.
MkError(at, hasMessage, message) ==
    [at |-> at, hasMessage |-> hasMessage, message |-> message]

\* The value of a variable that holds no error (JavaScript undefined).
NoError == MkError(-1, FALSE, <<>>)

\* What the model transport rejects with.
TransportMessages ==
    {<<"fetch failed">>,
     <<"429", "Too Many Requests">>,
     <<"Too Many Requests">>,
     <<"RESOURCE_EXHAUSTED">>}

TransportErrors(at) ==
    {MkError(at, TRUE, m) : m \in TransportMessages} \cup {MkError(at, FALSE, <<>>)}

\* message.includes(phrase)
Includes(message, phrase) == \E i \in 1..Len(message) : message[i] = phrase

\* The rate-limit signals of the specification, as an observer of the
\* transport sees them.
Signals == {"429", "Too Many Requests", "RESOURCE_EXHAUSTED"}

CarriesSignal(error) ==
    error.hasMessage /\ \E s \in Signals : Includes(error.message, s)

Tag(error) == IF CarriesSignal(error) THEN "rateLimit" ELSE "other"

\* ------------------------------------------------------------------------
\* retryWithBackoff (version A)
\* ------------------------------------------------------------------------

RECURSIVE Pow2(_)
Pow2(n) == IF n <= 0 THEN 1 ELSE 2 * Pow2(n - 1)

\* const isRateLimited = error.message?.includes('429') || ... ;
isRateLimited(error) ==
    /\ error.hasMessage
    /\ \/ Includes(error.message, "429")
       \/ Includes(error.message, "Too Many Requests")
       \/ Includes(error.message, "RESOURCE_EXHAUSTED")

BackoffDelay_Linear(delay0, k) == delay0 * (k + 1)

\* const delay = initialDelay * Math.pow(2, attempt);
BackoffDelay(delay0, k) == delay0 * Pow2(k)

SleepsBeforeRetry_Always(error, k, max) == isRateLimited(error)

\* if (isRateLimited && attempt < maxRetries - 1)
SleepsBeforeRetry(error, k, max) == isRateLimited(error) /\ k < max - 1

ThrowsAtOnce_Never(error, k, max) == FALSE

\* else if (!isRateLimited) throw error;
ThrowsAtOnce(error, k, max) ==
    ~SleepsBeforeRetry(error, k, max) /\ ~isRateLimited(error)

CaughtError_First(previous, error) == IF previous = NoError THEN error ELSE previous

\* lastError = error;
CaughtError(previous, error) == error

NoOut == [kind |-> "none", value |-> <<>>, error |-> NoError]
Returned(v) == [kind |-> "returned", value |-> v, error |-> NoError]
Threw(e) == [kind |-> "threw", value |-> <<>>, error |-> e]

\* What fn resolves with: a token for the stand-alone retrier, the text of
\* the model's response for the gateway.
FnValues == IF op = "retry" THEN {<<"value">>} ELSE Texts(MaxTextLen)

\* The loop test of `for (...; attempt < maxRetries; attempt++)` with the
\* counter at k and lastError at e: another invocation, or the loop ends
\* and line 45 throws lastError.  The locals die with the call.
LoopTest(k, e) ==
    IF k < maxRetries
    THEN /\ pc' = "invoke"
         /\ attempt' = k
         /\ lastError' = e
         /\ retryOut' = NoOut
    ELSE /\ pc' = "retried"
         /\ attempt' = 0
         /\ lastError' = NoError
         /\ retryOut' = Threw(e)

\* retryWithBackoff(fn, maxRetries, initialDelay) is called.
RetryStart ==
    /\ op = "retry"
    /\ pc = "start"
    /\ LoopTest(0, NoError)
    /\ UNCHANGED <<variant, op, input, maxRetries, initialDelay, calls,
                   raised, sleeps, result>>
    /\ UNCHANGED <<routeVars, clientVars, runtime>>

\* return await fn();  fn resolves.
InvokeOk ==
    /\ pc = "invoke"
    /\ \E v \in FnValues :
         /\ retryOut' = Returned(v)
         /\ calls' = Append(calls, "ok")
    /\ raised' = NoError
    /\ pc' = "retried"
    /\ attempt' = 0
    /\ lastError' = NoError
    /\ UNCHANGED <<variant, op, input, maxRetries, initialDelay, sleeps, result>>
    /\ UNCHANGED <<routeVars, clientVars, runtime>>

\* return await fn();  fn rejects and the catch block runs.
InvokeFail ==
    /\ pc = "invoke"
    /\ \E error \in TransportErrors(Len(calls)) :
         LET caught == CaughtError(lastError, error) IN
         /\ calls' = Append(calls, Tag(error))
         /\ raised' = error
         /\ IF SleepsBeforeRetry(error, attempt, maxRetries)
            THEN /\ sleeps' = Append(sleeps, BackoffDelay(initialDelay, attempt))
                 /\ pc' = "sleep"
                 /\ lastError' = caught
                 /\ UNCHANGED <<attempt, retryOut>>
            ELSE IF ThrowsAtOnce(error, attempt, maxRetries)
            THEN /\ pc' = "retried"
                 /\ retryOut' = Threw(error)
                 /\ attempt' = 0
                 /\ lastError' = NoError
                 /\ UNCHANGED sleeps
            ELSE /\ LoopTest(attempt + 1, caught)
                 /\ UNCHANGED sleeps
    /\ UNCHANGED <<variant, op, input, maxRetries, initialDelay, result>>
    /\ UNCHANGED <<routeVars, clientVars, runtime>>

\* await sleep(delay) is over: attempt++ and the loop test.
Wake ==
    /\ pc = "sleep"
    /\ LoopTest(attempt + 1, lastError)
    /\ UNCHANGED <<variant, op, input, maxRetries, initialDelay, calls,
                   raised, sleeps, result>>
    /\ UNCHANGED <<routeVars, clientVars, runtime>>

NoInput == [text |-> "", buffer |-> "", isNull |-> FALSE, items |-> <<>>]
NoResult == [kind |-> "none", success |-> FALSE, data |-> NoValue,
             hasError |-> FALSE, error |-> <<>>, isRateLimited |-> FALSE,
             thrown |-> ""]

\* No request under way and no response yet.
NoResponse ==
    [status |-> 0, success |-> FALSE, error |-> <<>>, hasDetails |-> FALSE,
     details |-> <<>>, flag |-> FALSE, id |-> 0, docs |-> <<>>,
     hasEnoughData |-> FALSE, hasCount |-> FALSE, count |-> 0]

NoRequest ==
    [route |-> "none", userId |-> "", date |-> "", textInput |-> FALSE,
     hasFile |-> FALSE, limit |-> 0, id |-> 0, pc |-> "idle",
     gwOp |-> "", handed |-> <<>>, analysis |-> NoResult, createdAt |-> 0, caught |-> <<>>,
     response |-> NoResponse]

Clients == {"c1", "c2"}

\* The routes are not running.
\* A component that is not mounted.
Unmounted == [mounted |-> FALSE]

ClientAtRest ==
    /\ recorder = Unmounted
    /\ voice = Unmounted
    /\ page = Unmounted

Modes == {"production", "development"}

\* The server has started and has handled no request.
StoreAtRest ==
    /\ store = {}
    /\ usedIds = {}
    /\ clock = 0
    /\ reqs = [c \in Clients |-> NoRequest]
    /\ mode = "production"

RoutesAtRest ==
    /\ StoreAtRest
    /\ ClientAtRest

InitialDelays == {500, 2000}

\* The retrier on its own: any maxRetries and initialDelay, any fn.
InitRetry ==
    /\ variant = "A"
    /\ op = "retry"
    /\ input = NoInput
    /\ pc = "start"
    /\ maxRetries \in 0..MaxRetriesBound
    /\ initialDelay \in InitialDelays
    /\ attempt = 0
    /\ lastError = NoError
    /\ calls = <<>>
    /\ raised = NoError
    /\ sleeps = <<>>
    /\ retryOut = NoOut
    /\ result = NoResult
    /\ runtime = "quoting"
    /\ RoutesAtRest

NextRetry == RetryStart \/ InvokeOk \/ InvokeFail \/ Wake

SpecRetry == InitRetry /\ [][NextRetry]_vars

\* The event loop resumes every pending step of the call: an invocation
\* that was started settles, and a timer that was set fires.
SpecRetryLive == InitRetry /\ [][NextRetry]_vars /\ WF_vars(NextRetry)

\* ------------------------------------------------------------------------
\* The gateway operations
\* ------------------------------------------------------------------------

BusyMessage == <<"The AI service is temporarily busy. Please wait a moment and try again.">>

\* { success: true, data }
Success(data) ==
    [kind |-> "returned", success |-> TRUE, data |-> data, hasError |-> FALSE,
     error |-> <<>>, isRateLimited |-> FALSE, thrown |-> ""]

\* { success: false, error }   (error may be undefined: hasError = FALSE)
Failure(hasMessage, message) ==
    [kind |-> "returned", success |-> FALSE, data |-> NoValue,
     hasError |-> hasMessage, error |-> message, isRateLimited |-> FALSE,
     thrown |-> ""]

\* { success: false, error: 'The AI service is temporarily busy...',
\*   isRateLimited: true }
RateLimitedFailure ==
    [kind |-> "returned", success |-> FALSE, data |-> NoValue,
     hasError |-> TRUE, error |-> BusyMessage, isRateLimited |-> TRUE,
     thrown |-> ""]

\* The operation ended by throwing to its caller.
Escaped(name) ==
    [kind |-> "threw", success |-> FALSE, data |-> NoValue, hasError |-> FALSE,
     error |-> <<>>, isRateLimited |-> FALSE, thrown |-> name]

Runtimes == {"plain", "quoting"}

\* The SyntaxError of JSON.parse.
\* The message names the offending character; a runtime of the quoting
\* kind (V8 from 10.5 on) adds the text that starts at it, so that a
\* document that starts with CODE has the digits 429 in its message.
SyntaxErrorOf(str) ==
    IF runtime = "quoting" /\ Trim(str) # <<>> /\ Trim(str)[1] = CODE
    THEN MkError(-1, TRUE, <<"Unexpected token", "429">>)
    ELSE MkError(-1, TRUE, <<"Unexpected token">>)

GatewayCatchA_Swallow(error) == Success(NoValue)

\* Version A, the catch block of the three operations:
\* if (error.message?.includes('429') ||
\*     error.message?.includes('RESOURCE_EXHAUSTED')) {...isRateLimited: true}
\* return { success: false, error: error.message };
GatewayCatchA(error) ==
    IF /\ error.hasMessage
       /\ \/ Includes(error.message, "429")
          \/ Includes(error.message, "RESOURCE_EXHAUSTED")
    THEN RateLimitedFailure
    ELSE Failure(error.hasMessage, error.message)

\* Version A, from result.response.text() to the return: the extraction,
\* JSON.parse and the success result, or the catch block on a SyntaxError.
ResponseResultA(text) ==
    LET jsonStr == JsonStrA(text)
        parsed  == JSONParse(jsonStr)
    IN  IF parsed.ok THEN Success(parsed.value)
        ELSE GatewayCatchA(SyntaxErrorOf(jsonStr))

\* Version B, the catch block of the two operations:
\* return { success: false, error: error.message };
GatewayCatchB(error) == Failure(error.hasMessage, error.message)

\* Version B, callGemini from result.response.text() on, and the return of
\* its caller: a SyntaxError becomes Error("Invalid AI response format").
ResponseResultB(text) ==
    LET jsonStr == JsonStrB(text)
        parsed  == JSONParse(jsonStr)
    IN  IF parsed.ok THEN Success(parsed.value)
        ELSE GatewayCatchB(MkError(-1, TRUE, <<"Invalid AI response format">>))

\* The operation calls retryWithBackoff(fn) with the default parameters.
EnterRetry ==
    /\ LoopTest(0, NoError)
    /\ UNCHANGED result

\* The operation returns or throws before any model call.
EndEarly(r) ==
    /\ pc' = "done"
    /\ result' = r
    /\ UNCHANGED <<attempt, lastError, retryOut>>

\* reflections.map(r => ({..., transcript: r.transcript?.substring(0, 200)}))
\* of version A throws a TypeError when a transcript is no string.
SummaryThrowsA(items) == \E i \in 1..Len(items) : items[i] = "numTranscript"

\* Version A: analyzeAudioReflection(audioBuffer, mimeType) up to the call
\* of retryWithBackoff.  audioBuffer.toString('base64') stands before try.
analyzeAudioReflection ==
    /\ variant = "A"
    /\ op = "analyzeAudio"
    /\ pc = "start"
    /\ IF input.buffer = "undefined"
       THEN EndEarly(Escaped("TypeError"))
       ELSE EnterRetry
    /\ UNCHANGED <<variant, op, input, maxRetries, initialDelay, calls,
                   raised, sleeps>>
    /\ UNCHANGED <<routeVars, clientVars, runtime>>

\* Version A: analyzeWeeklyPatterns(reflections) up to the call of
\* retryWithBackoff.
analyzeWeeklyPatternsA ==
    /\ variant = "A"
    /\ op = "analyzeWeekly"
    /\ pc = "start"
    /\ IF input.isNull \/ Len(input.items) = 0
       THEN EndEarly(Failure(TRUE, <<"No reflections to analyze">>))
       ELSE IF SummaryThrowsA(input.items)
       THEN EndEarly(Escaped("TypeError"))
       ELSE EnterRetry
    /\ UNCHANGED <<variant, op, input, maxRetries, initialDelay, calls,
                   raised, sleeps>>
    /\ UNCHANGED <<routeVars, clientVars, runtime>>

\* Version A: analyzeTextReflection(textInput) up to the call of
\* retryWithBackoff.
analyzeTextReflectionA ==
    /\ variant = "A"
    /\ op = "analyzeText"
    /\ pc = "start"
    /\ EnterRetry
    /\ UNCHANGED <<variant, op, input, maxRetries, initialDelay, calls,
                   raised, sleeps>>
    /\ UNCHANGED <<routeVars, clientVars, runtime>>

\* Version A: retryWithBackoff has returned or thrown; the rest of the try
\* block or the catch block.
finishA ==
    /\ variant = "A"
    /\ op # "retry"
    /\ pc = "retried"
    /\ result' = IF retryOut.kind = "threw"
                 THEN GatewayCatchA(retryOut.error)
                 ELSE ResponseResultA(retryOut.value)
    /\ pc' = "done"
    /\ UNCHANGED <<variant, op, input, maxRetries, initialDelay, attempt,
                   lastError, calls, raised, sleeps, retryOut>>
    /\ UNCHANGED <<routeVars, clientVars, runtime>>

\* Version B: analyzeTextReflection(textInput) up to callGemini(prompt).
analyzeTextReflectionB ==
    /\ variant = "B"
    /\ op = "analyzeText"
    /\ pc = "start"
    /\ pc' = "callGemini"
    /\ UNCHANGED <<variant, op, input, maxRetries, initialDelay, attempt,
                   lastError, calls, raised, sleeps, retryOut, result>>
    /\ UNCHANGED <<routeVars, clientVars, runtime>>

\* Version B: analyzeWeeklyPatterns(reflections) up to callGemini(prompt).
analyzeWeeklyPatternsB ==
    /\ variant = "B"
    /\ op = "analyzeWeekly"
    /\ pc = "start"
    /\ IF input.isNull \/ Len(input.items) < MinReflections
       THEN EndEarly(Failure(TRUE, <<"Not enough reflections for weekly analysis">>))
       ELSE /\ pc' = "callGemini"
            /\ UNCHANGED <<attempt, lastError, retryOut, result>>
    /\ UNCHANGED <<variant, op, input, maxRetries, initialDelay, calls,
                   raised, sleeps>>
    /\ UNCHANGED <<routeVars, clientVars, runtime>>

\* Version B: const result = await model.generateContent(prompt) resolves.
callGeminiOk ==
    /\ pc = "callGemini"
    /\ \E v \in FnValues : retryOut' = Returned(v)
    /\ calls' = Append(calls, "ok")
    /\ raised' = NoError
    /\ pc' = "retried"
    /\ UNCHANGED <<variant, op, input, maxRetries, initialDelay, attempt,
                   lastError, sleeps, result>>
    /\ UNCHANGED <<routeVars, clientVars, runtime>>

\* Version B: model.generateContent(prompt) rejects; callGemini lets the
\* error through to its caller.
callGeminiFail ==
    /\ pc = "callGemini"
    /\ \E error \in TransportErrors(Len(calls)) :
         /\ retryOut' = Threw(error)
         /\ calls' = Append(calls, Tag(error))
         /\ raised' = error
    /\ pc' = "retried"
    /\ UNCHANGED <<variant, op, input, maxRetries, initialDelay, attempt,
                   lastError, sleeps, result>>
    /\ UNCHANGED <<routeVars, clientVars, runtime>>

\* Version B: callGemini has parsed the response or thrown; the return of
\* the operation.
finishB ==
    /\ variant = "B"
    /\ pc = "retried"
    /\ result' = IF retryOut.kind = "threw"
                 THEN GatewayCatchB(retryOut.error)
                 ELSE ResponseResultB(retryOut.value)
    /\ pc' = "done"
    /\ UNCHANGED <<variant, op, input, maxRetries, initialDelay, attempt,
                   lastError, calls, raised, sleeps, retryOut>>
    /\ UNCHANGED <<routeVars, clientVars, runtime>>

TextInputs == {"t1", "t2"}

ReflectionKinds == {"record", "numTranscript"}

ReflectionLists == UNION {[1..n -> ReflectionKinds] : n \in 0..MaxReflections}

\* The arguments of each operation.
Inputs(v, o) ==
    IF o = "analyzeText" THEN
        {[NoInput EXCEPT !.text = t] : t \in TextInputs}
    ELSE IF o = "analyzeAudio" THEN
        {[NoInput EXCEPT !.buffer = b] : b \in {"buffer", "undefined"}}
    ELSE
        {[NoInput EXCEPT !.items = l] : l \in ReflectionLists}
            \cup {[NoInput EXCEPT !.isNull = TRUE]}

Operations(v) ==
    IF v = "A" THEN {"analyzeText", "analyzeAudio", "analyzeWeekly"}
    ELSE {"analyzeText", "analyzeWeekly"}

\* One call of a gateway operation of either version.
InitGateway ==
    /\ variant \in {"A", "B"}
    /\ op \in Operations(variant)
    /\ input \in Inputs(variant, op)
    /\ pc = "start"
    /\ maxRetries = DefaultMaxRetries
    /\ initialDelay = DefaultInitialDelay
    /\ attempt = 0
    /\ lastError = NoError
    /\ calls = <<>>
    /\ raised = NoError
    /\ sleeps = <<>>
    /\ retryOut = NoOut
    /\ result = NoResult
    /\ runtime \in Runtimes
    /\ RoutesAtRest

NextGateway ==
    \/ analyzeAudioReflection
    \/ analyzeWeeklyPatternsA
    \/ analyzeTextReflectionA
    \/ InvokeOk
    \/ InvokeFail
    \/ Wake
    \/ finishA
    \/ analyzeTextReflectionB
    \/ analyzeWeeklyPatternsB
    \/ callGeminiOk
    \/ callGeminiFail
    \/ finishB

SpecGateway == InitGateway /\ [][NextGateway]_vars

\* ------------------------------------------------------------------------
\* The reflection store (Firestore collection 'reflections')
\* ------------------------------------------------------------------------

Users == {"u1", "u2"}
Dates == {"d1", "d2"}

\* new Date().toISOString().split('T')[0]
Today == "d1"

\* A stored document: the id the store gave it and the fields of
\* reflectionData the routes read back.
Doc(id, userId, date, createdAt) ==
    [id |-> id, userId |-> userId, date |-> date, createdAt |-> createdAt]

DocIds(s) == {r.id : r \in s}

AddDoc_Upsert(s, doc) ==
    {r \in s : ~(r.userId = doc.userId /\ r.date = doc.date)} \cup {doc}

\* db.collection('reflections').add(reflectionData): a new document under a
\* new id; no document is looked up or replaced.
AddDoc(s, doc) == s \cup {doc}

DeleteDoc_Blank(s, id) ==
    {IF r.id = id THEN [r EXCEPT !.userId = ""] ELSE r : r \in s}

\* db.collection('reflections').doc(id).delete()
DeleteDoc(s, id) == {r \in s : r.id # id}

WhereUser_All(s, userId) == s

\* .where('userId', '==', userId)
WhereUser(s, userId) == {r \in s : r.userId = userId}

\* .where('date', '==', date)
WhereDate(s, date) == {r \in s : r.date = date}

\* The documents of s that no other document of s precedes in the order
\* createdAt descending.
Newest_Oldest(s) == {r \in s : \A q \in s : r.createdAt <= q.createdAt}

Newest(s) == {r \in s : \A q \in s : r.createdAt >= q.createdAt}

\* .orderBy('createdAt', 'desc'): the orders the query may return.  Documents
\* with equal createdAt come in the order of their ids, which the store
\* draws at random, so either order may be seen.
RECURSIVE OrderByCreatedAtDesc(_)
OrderByCreatedAtDesc(s) ==
    IF s = {} THEN {<<>>}
    ELSE UNION {{<<r>> \o rest : rest \in OrderByCreatedAtDesc(s \ {r})} :
                r \in Newest(s)}


\* .limit(n)
Limit(seq, n) == SubSeq(seq, 1, IF n < Len(seq) THEN n ELSE Len(seq))

\* where(userId).orderBy(createdAt desc).limit(n).get(): the snapshots the
\* query may return.
QueryRecent(s, userId, n) ==
    {Limit(seq, n) : seq \in OrderByCreatedAtDesc(WhereUser(s, userId))}

\* where(userId).where(date).limit(1).get(): no orderBy, so the documents
\* come in the order of their ids, which is no order of creation: any of
\* the matching documents may be the one returned.
QueryByDate(s, userId, date) ==
    LET matches == WhereDate(WhereUser(s, userId), date)
    IN  IF matches = {} THEN {<<>>} ELSE {<<r>> : r \in matches}

\* ------------------------------------------------------------------------
\* The routes (src/unnamed/part_000: version A lines 1-224, version B lines
\* 226-356).  Version A calls version A of the gateway, version B version B.
\* ------------------------------------------------------------------------

\* What the model may answer, as far as the routes can tell the answers
\* apart: a complete record, a document without fields, no JSON.
ModelAnswers == {<<RECORD>>, <<EMPTYOBJ>>, <<JUNK>>}

\* The results a call of a gateway operation can end with.  A stored
\* transcript is whatever the model answered, so version A of
\* analyzeWeeklyPatterns can also end by throwing.
GatewayResults(v, gwOp) ==
    IF v = "A"
    THEN {ResponseResultA(t) : t \in ModelAnswers}
            \cup {GatewayCatchA(e) : e \in TransportErrors(0)}
            \cup (IF gwOp = "analyzeWeekly" THEN {Escaped("TypeError")} ELSE {})
    ELSE {ResponseResultB(t) : t \in ModelAnswers}
            \cup {GatewayCatchB(e) : e \in TransportErrors(0)}

Status(code, error) == [NoResponse EXCEPT !.status = code, !.error = error]

\* The catch block of a route: version A sends the message of the exception
\* as details, version B a fixed text only.
CatchResponse(v, error, message) ==
    IF v = "A"
    THEN [Status(500, error) EXCEPT !.hasDetails = TRUE, !.details = message]
    ELSE Status(500, error)

\* if (!analysis.success) return res.status(500).json(...)
\* A: { error: 'Analysis failed', details: analysis.error }
\* B: { success: false, error: analysis.error }
AnalysisFailedResponse(v, analysis) ==
    IF v = "A"
    THEN [Status(500, <<"Analysis failed">>) EXCEPT
              !.hasDetails = analysis.hasError, !.details = analysis.error]
    ELSE Status(500, analysis.error)

StoreError == <<"store unavailable">>
TypeErrorMessage == <<"r.transcript.substring is not a function">>

\* The client whose exchanges are observed; what is sent to another client
\* leaves no trace on the server.
Observed == "c1"

Respond(c, req, resp) ==
    reqs' = [reqs EXCEPT ![c] = IF c = Observed
                                THEN [req EXCEPT !.pc = "responded", !.response = resp]
                                ELSE NoRequest]

Await(c, req, at) ==
    reqs' = [reqs EXCEPT ![c] = [req EXCEPT !.pc = at]]

\* A catch block of a route answers: the exception it caught is kept with
\* the request.
Caught(c, req, error, message) ==
    Respond(c, [req EXCEPT !.caught = message], CatchResponse(variant, error, message))

CanStart(c) == reqs[c].pc \in {"idle", "responded"}

\* Daily requests that may still add a document.
PendingAdds == {c \in Clients : reqs[c].route = "daily" /\ reqs[c].pc \in {"gateway", "adding"}}

\* The store has an id left for one more document.
RoomForDoc == Cardinality(usedIds) + Cardinality(PendingAdds) < MaxDocs

DailyRequest(userId, date, textInput, hasFile) ==
    [NoRequest EXCEPT !.route = "daily", !.userId = userId, !.date = date,
                      !.textInput = textInput, !.hasFile = hasFile]

AudioFirst_Always(req) ==
    IF req.hasFile THEN "analyzeAudio" ELSE "analyzeText"

\* Version A, which gateway operation a daily request goes to ("" = none):
\* if (req.file) {audio} else if (textInput) {text} else {400}
AudioFirst(req) ==
    IF req.hasFile THEN "analyzeAudio"
    ELSE IF req.textInput THEN "analyzeText"
    ELSE ""

\* Version A, POST /analyze-daily up to the await of the gateway.
analyzeDailyA(c) ==
    /\ variant = "A"
    /\ CanStart(c)
    /\ RoomForDoc
    /\ \E userId \in Users \cup {""}, date \in Dates \cup {""},
          textInput \in BOOLEAN, hasFile \in BOOLEAN :
         LET req == DailyRequest(userId, date, textInput, hasFile) IN
         IF userId = ""
         THEN Respond(c, req, Status(400, <<"User ID is required">>))
         ELSE IF AudioFirst(req) = ""
         THEN Respond(c, req, Status(400, <<"Audio file or text input required">>))
         ELSE Await(c, [req EXCEPT !.gwOp = AudioFirst(req)], "gateway")
    /\ UNCHANGED <<store, usedIds, clock>>
    /\ UNCHANGED <<variant, mode, gatewayVars, clientVars>>

\* Version B, POST /analyze-daily up to the await of the gateway.  The body
\* is JSON: there is no upload.
analyzeDailyB(c) ==
    /\ variant = "B"
    /\ CanStart(c)
    /\ RoomForDoc
    /\ \E userId \in Users \cup {""}, date \in Dates \cup {""},
          textInput \in BOOLEAN :
         LET req == DailyRequest(userId, date, textInput, FALSE) IN
         IF userId = "" \/ ~textInput
         THEN Respond(c, req, Status(400, <<"userId and textInput are required">>))
         ELSE Await(c, [req EXCEPT !.gwOp = "analyzeText"], "gateway")
    /\ UNCHANGED <<store, usedIds, clock>>
    /\ UNCHANGED <<variant, mode, gatewayVars, clientVars>>

SaveAnyway(analysis) == analysis.kind = "returned"

\* if (!analysis.success) return 500; otherwise the document is built and
\* added.
Saves(analysis) == analysis.kind = "returned" /\ analysis.success

\* POST /analyze-daily, the gateway has settled: 500 on a failure, otherwise
\* reflectionData is built (createdAt: new Date()) and the add is awaited.
dailyAnalysed(c) ==
    /\ reqs[c].route = "daily"
    /\ reqs[c].pc = "gateway"
    /\ \E analysis \in GatewayResults(variant, reqs[c].gwOp) :
         LET req == [reqs[c] EXCEPT !.analysis = analysis] IN
         IF analysis.kind = "threw"
         THEN /\ Caught(c, req, <<"Failed to analyze reflection">>,
                                               TypeErrorMessage)
              /\ UNCHANGED clock
         ELSE IF ~Saves(analysis)
         THEN /\ Respond(c, req, AnalysisFailedResponse(variant, analysis))
              /\ UNCHANGED clock
         ELSE \E now \in {clock, clock + 1} :
                /\ now <= MaxDocs
                /\ clock' = now
                /\ Await(c, [req EXCEPT !.createdAt = now], "adding")
    /\ UNCHANGED <<store, usedIds>>
    /\ UNCHANGED <<variant, mode, gatewayVars, clientVars>>

\* The id the store gives the next document: one never given before.
NewId(used) == Cardinality(used) + 1

\* POST /analyze-daily, the add has settled: the document is in the store
\* and its id is sent, or the add threw and the catch block answers.
dailyAdded(c) ==
    /\ reqs[c].route = "daily"
    /\ reqs[c].pc = "adding"
    /\ \/ LET id  == NewId(usedIds)
              doc == Doc(id, reqs[c].userId,
                         IF reqs[c].date = "" THEN Today ELSE reqs[c].date,
                         reqs[c].createdAt)
          IN  /\ store' = AddDoc(store, doc)
              /\ usedIds' = usedIds \cup {id}
              /\ Respond(c, reqs[c],
                         [Status(200, <<>>) EXCEPT !.success = TRUE, !.id = id])
       \/ /\ Caught(c, reqs[c], <<"Failed to analyze reflection">>, StoreError)
          /\ UNCHANGED <<store, usedIds>>
    /\ UNCHANGED clock
    /\ UNCHANGED <<variant, mode, gatewayVars, clientVars>>

LimitParams == {0, 1, 2}

\* Version A, GET /reflections/:userId?limit= ; limit = 0 stands for no
\* limit in the query string.
getReflections(c) ==
    /\ variant = "A"
    /\ CanStart(c)
    /\ \E userId \in Users, limit \in LimitParams :
         LET req == [NoRequest EXCEPT !.route = "list", !.userId = userId, !.limit = limit]
             n   == IF limit = 0 THEN DefaultLimit ELSE limit
         IN  \/ \E snapshot \in QueryRecent(store, userId, n) :
                  Respond(c, req, [Status(200, <<>>) EXCEPT !.success = TRUE,
                                                          !.docs = snapshot])
             \/ Caught(c, req, <<"Failed to fetch reflections">>,
                                              StoreError)
    /\ UNCHANGED <<store, usedIds, clock>>
    /\ UNCHANGED <<variant, mode, gatewayVars, clientVars>>

\* Version A, GET /reflection/:userId/:date
getReflectionForDate(c) ==
    /\ variant = "A"
    /\ CanStart(c)
    /\ \E userId \in Users, date \in Dates :
         LET req == [NoRequest EXCEPT !.route = "byDate", !.userId = userId, !.date = date]
         IN  \/ \E snapshot \in QueryByDate(store, userId, date) :
                  IF Len(snapshot) = 0
                  THEN Respond(c, req, Status(404, <<"Reflection not found">>))
                  ELSE Respond(c, req, [Status(200, <<>>) EXCEPT !.success = TRUE,
                                                               !.docs = snapshot])
             \/ Caught(c, req, <<"Failed to fetch reflection">>,
                                              StoreError)
    /\ UNCHANGED <<store, usedIds, clock>>
    /\ UNCHANGED <<variant, mode, gatewayVars, clientVars>>

\* POST /analyze-weekly up to the await of the gateway (both versions).
analyzeWeekly(c) ==
    /\ CanStart(c)
    /\ \E userId \in Users \cup {""} :
         LET req == [NoRequest EXCEPT !.route = "weekly", !.userId = userId] IN
         IF userId = ""
         THEN Respond(c, req, Status(400, <<"User ID is required">>))
         ELSE \/ \E snapshot \in QueryRecent(store, userId, WeeklyLimit) :
                   IF Len(snapshot) = 0
                   THEN Respond(c, req, [Status(200, <<>>) EXCEPT !.success = TRUE])
                   ELSE IF Len(snapshot) < WeeklyMinimum
                   THEN Respond(c, req, [Status(200, <<>>) EXCEPT
                                            !.success = TRUE, !.hasCount = TRUE,
                                            !.count = Len(snapshot)])
                   ELSE Await(c, [req EXCEPT !.gwOp = "analyzeWeekly",
                                             !.handed = snapshot], "gateway")
              \/ Caught(c, req,
                                       IF variant = "A"
                                       THEN <<"Failed to analyze weekly patterns">>
                                       ELSE <<"Weekly analysis failed">>,
                                       StoreError)
    /\ UNCHANGED <<store, usedIds, clock>>
    /\ UNCHANGED <<variant, mode, gatewayVars, clientVars>>

\* POST /analyze-weekly, the gateway has settled.
weeklyAnalysed(c) ==
    /\ reqs[c].route = "weekly"
    /\ reqs[c].pc = "gateway"
    /\ \E analysis \in GatewayResults(variant, "analyzeWeekly") :
         LET req == [reqs[c] EXCEPT !.analysis = analysis] IN
         IF analysis.kind = "threw"
         THEN Caught(c, req,
                                    IF variant = "A"
                                    THEN <<"Failed to analyze weekly patterns">>
                                    ELSE <<"Weekly analysis failed">>,
                                    TypeErrorMessage)
         ELSE IF ~analysis.success
         THEN Respond(c, req,
                      IF variant = "A"
                      THEN [Status(500, <<"Weekly analysis failed">>) EXCEPT
                                !.hasDetails = analysis.hasError,
                                !.details = analysis.error]
                      ELSE Status(500, analysis.error))
         ELSE Respond(c, req, [Status(200, <<>>) EXCEPT
                                  !.success = TRUE, !.hasEnoughData = TRUE,
                                  !.hasCount = TRUE, !.count = Len(req.handed)])
    /\ UNCHANGED <<store, usedIds, clock>>
    /\ UNCHANGED <<variant, mode, gatewayVars, clientVars>>

OwnerMatches_Any(doc, userId) == TRUE

\* if (doc.data().userId !== userId) return 403
OwnerMatches(doc, userId) == doc.userId = userId

\* Version A, DELETE /reflection/:id up to the await of the delete: the
\* document is read and the ownership verified.
deleteReflection(c) ==
    /\ variant = "A"
    /\ CanStart(c)
    /\ \E id \in 1..MaxDocs, userId \in Users \cup {""} :
         LET req   == [NoRequest EXCEPT !.route = "delete", !.id = id, !.userId = userId]
             found == {r \in store : r.id = id}
         IN  \/ IF found = {}
                THEN Respond(c, req, Status(404, <<"Reflection not found">>))
                ELSE IF ~OwnerMatches(CHOOSE r \in found : TRUE, userId)
                THEN Respond(c, req, Status(403, <<"Unauthorized">>))
                ELSE Await(c, req, "deleting")
             \/ Caught(c, req, <<"Failed to delete reflection">>,
                                              StoreError)
    /\ UNCHANGED <<store, usedIds, clock>>
    /\ UNCHANGED <<variant, mode, gatewayVars, clientVars>>

\* DELETE /reflection/:id, the delete has settled.
reflectionDeleted(c) ==
    /\ reqs[c].route = "delete"
    /\ reqs[c].pc = "deleting"
    /\ \/ /\ store' = DeleteDoc(store, reqs[c].id)
          /\ Respond(c, reqs[c], [Status(200, <<>>) EXCEPT !.success = TRUE])
       \/ /\ Caught(c, reqs[c], <<"Failed to delete reflection">>,
                                               StoreError)
          /\ UNCHANGED store
    /\ UNCHANGED <<usedIds, clock>>
    /\ UNCHANGED <<variant, mode, gatewayVars, clientVars>>

\* What reaches the error handling middleware of server.js: an error a
\* middleware in front of the routes passed on (body parser, CORS, multer).
MiddlewareErrors ==
    {[code |-> "LIMIT_FILE_SIZE", message |-> <<"File too large">>],
     [code |-> "", message |-> <<"Unexpected token">>],
     [code |-> "", message |-> <<"Not allowed by CORS">>]}

\* details: process.env.NODE_ENV === 'development' ? err.message : undefined
MiddlewareResponse(m, err) ==
    IF err.code = "LIMIT_FILE_SIZE"
    THEN [Status(400, <<"File too large">>) EXCEPT
              !.hasDetails = TRUE, !.details = <<"Maximum file size is 10MB">>]
    ELSE IF m = "development"
    THEN [Status(500, <<"Internal server error">>) EXCEPT
              !.hasDetails = TRUE, !.details = err.message]
    ELSE Status(500, <<"Internal server error">>)

\* server.js, the error handling middleware answers a request that never
\* reached a route.  The multer size limit is answered as a known case.
errorMiddleware(c) ==
    /\ CanStart(c)
    /\ \E err \in MiddlewareErrors :
         LET req == [NoRequest EXCEPT
                        !.route = "rejected",
                        !.caught = IF err.code = "LIMIT_FILE_SIZE" THEN <<>>
                                   ELSE err.message]
         IN  Respond(c, req, MiddlewareResponse(mode, err))
    /\ UNCHANGED <<store, usedIds, clock>>
    /\ UNCHANGED <<variant, mode, gatewayVars, clientVars>>

\* No gateway call of its own is modelled while the routes run.
GatewayAtRest ==
    /\ op = "none"
    /\ input = NoInput
    /\ pc = "idle"
    /\ maxRetries = DefaultMaxRetries
    /\ initialDelay = DefaultInitialDelay
    /\ attempt = 0
    /\ lastError = NoError
    /\ calls = <<>>
    /\ raised = NoError
    /\ sleeps = <<>>
    /\ retryOut = NoOut
    /\ result = NoResult
    /\ runtime = "quoting"

\* The server starts on an empty collection and handles the requests of
\* the observed client one after the other.
InitRoutes ==
    /\ variant \in {"A", "B"}
    /\ GatewayAtRest
    /\ RoutesAtRest

NextRoutes ==
    \/ analyzeDailyA(Observed)
    \/ analyzeDailyB(Observed)
    \/ dailyAnalysed(Observed)
    \/ dailyAdded(Observed)
    \/ getReflectionForDate(Observed)
    \/ deleteReflection(Observed)
    \/ reflectionDeleted(Observed)

SpecRoutes == InitRoutes /\ [][NextRoutes]_vars

\* Daily requests of two clients that the server handles interleaved: each
\* await of a handler is a point where the other handler may run.
NextConcurrent ==
    \/ \E c \in Clients : analyzeDailyA(c)
    \/ \E c \in Clients : analyzeDailyB(c)
    \/ \E c \in Clients : dailyAnalysed(c)
    \/ \E c \in Clients : dailyAdded(c)

SpecConcurrent == InitRoutes /\ [][NextConcurrent]_vars

\* The collections the read routes are run on: n documents created one
\* after the other, each by any of the users.
Stored(owner) ==
    {Doc(i, owner[i], Today, i) : i \in DOMAIN owner}

InitQuery ==
    /\ variant \in {"A", "B"}
    /\ GatewayAtRest
    /\ \E n \in 0..MaxStored : \E owner \in [1..n -> Users] :
         /\ store = Stored(owner)
         /\ usedIds = 1..n
         /\ clock = n
    /\ reqs = [c \in Clients |-> NoRequest]
    /\ mode = "production"
    /\ ClientAtRest

NextQuery ==
    \/ getReflections(Observed)
    \/ analyzeWeekly(Observed)
    \/ weeklyAnalysed(Observed)

SpecQuery == InitQuery /\ [][NextQuery]_vars

\* All routes of one client on a collection that holds up to WeeklyMinimum
\* reflections when the server starts.
InitLifecycle ==
    /\ variant \in {"A", "B"}
    /\ GatewayAtRest
    /\ \E n \in 0..WeeklyMinimum : \E owner \in [1..n -> Users] :
         /\ store = Stored(owner)
         /\ usedIds = 1..n
         /\ clock = n
    /\ reqs = [c \in Clients |-> NoRequest]
    /\ mode \in Modes
    /\ ClientAtRest

NextLifecycle ==
    \/ analyzeDailyA(Observed)
    \/ analyzeDailyB(Observed)
    \/ dailyAnalysed(Observed)
    \/ dailyAdded(Observed)
    \/ getReflections(Observed)
    \/ getReflectionForDate(Observed)
    \/ analyzeWeekly(Observed)
    \/ weeklyAnalysed(Observed)
    \/ deleteReflection(Observed)
    \/ reflectionDeleted(Observed)
    \/ errorMiddleware(Observed)

SpecLifecycle == InitLifecycle /\ [][NextLifecycle]_vars

\* ------------------------------------------------------------------------
\* The client (src/client/src/pages/Reflect.jsx, handleRecordingComplete)
\* ------------------------------------------------------------------------

\* Which of the words the client searches for occur in a phrase of a
\* message (String.prototype.includes is case sensitive).
WordsIn(phrase) ==
    IF phrase = BusyMessage[1] THEN {"busy"}
    ELSE IF phrase = "429" THEN {"429"}
    ELSE {}

ClientIncludes(message, word) ==
    \E i \in 1..Len(message) : word \in WordsIn(message[i])

ClientBusyMessage == <<"The AI service is busy. Please wait 30 seconds and try again.">>

\* const errorMsg = result.error || result.details || 'Analysis failed'
ErrorMsg(response) ==
    IF response.error # <<>> THEN response.error
    ELSE IF response.hasDetails /\ response.details # <<>> THEN response.details
    ELSE <<"Analysis failed">>

\* What handleRecordingComplete hands to setError for a response (<<>>: no
\* error is shown).
ErrorShown(response) ==
    IF response.status = 200 /\ response.success
    THEN <<>>
    ELSE IF \/ ClientIncludes(ErrorMsg(response), "busy")
            \/ ClientIncludes(ErrorMsg(response), "rate")
            \/ ClientIncludes(ErrorMsg(response), "429")
    THEN ClientBusyMessage
    ELSE ErrorMsg(response)

\* ------------------------------------------------------------------------
\* The AudioRecorder component (src/unnamed/part_001, lines 39-246)
\* ------------------------------------------------------------------------

\* The server side while only a component of the client is looked at.
ServerAtRest ==
    /\ variant = "A"
    /\ GatewayAtRest
    /\ StoreAtRest

\* The component after its first render.  mediaRecorder is the state of
\* mediaRecorderRef.current, timer whether the interval of timerRef is set,
\* seenRecording the value of isRecording in the render whose startRecording
\* set the interval (the interval callback calls the stopRecording of that
\* render), elapsed the seconds the media recorder has been recording.
RecorderMounted ==
    [mounted |-> TRUE, isRecording |-> FALSE, recordingTime |-> 0,
     mediaRecorder |-> "none", timer |-> FALSE, seenRecording |-> FALSE,
     hasAudio |-> FALSE, error |-> "", elapsed |-> 0]

\* stopRecording as defined in a render whose isRecording is the given
\* value: if (mediaRecorderRef.current && isRecording) { clearInterval;
\* mediaRecorder.stop() (onstop sets the blob); setIsRecording(false) }
StopRecording(r, isRecording) ==
    IF r.mediaRecorder # "none" /\ isRecording
    THEN [r EXCEPT !.timer = FALSE, !.mediaRecorder = "inactive",
                   !.isRecording = FALSE, !.hasAudio = TRUE]
    ELSE r

\* startRecording, from the record button or from Try Again: getUserMedia
\* resolves and the recorder and the timer are started, or it rejects.
recorderStart ==
    /\ recorder.mounted
    /\ \/ recorder.error = "" /\ ~recorder.hasAudio /\ ~recorder.isRecording
       \/ recorder.error = "denied"
    /\ \/ recorder' = [recorder EXCEPT
                          !.error = "", !.mediaRecorder = "recording",
                          !.isRecording = TRUE, !.recordingTime = 0,
                          !.timer = TRUE,
                          !.seenRecording = recorder.isRecording,
                          !.elapsed = 0]
       \/ \E e \in {"denied", "failed"} :
            recorder' = [recorder EXCEPT !.error = e]
    /\ UNCHANGED <<variant, gatewayVars, routeVars, voice, page>>

\* The interval fires after a second:
\* setRecordingTime(prev => { if (prev >= maxDuration) { stopRecording();
\* return prev; } return prev + 1; })
recorderTick ==
    /\ recorder.mounted
    /\ recorder.timer
    /\ recorder.elapsed < MaxElapsed
    /\ LET r == [recorder EXCEPT
                    !.elapsed = IF recorder.mediaRecorder = "recording"
                                THEN @ + 1 ELSE @]
       IN  recorder' = IF r.recordingTime >= MaxDuration
                       THEN StopRecording(r, r.seenRecording)
                       ELSE [r EXCEPT !.recordingTime = @ + 1]
    /\ UNCHANGED <<variant, gatewayVars, routeVars, voice, page>>

\* The record button while recording: stopRecording of the current render.
recorderStop ==
    /\ recorder.mounted
    /\ recorder.error = "" /\ ~recorder.hasAudio /\ recorder.isRecording
    /\ recorder' = StopRecording(recorder, recorder.isRecording)
    /\ UNCHANGED <<variant, gatewayVars, routeVars, voice, page>>

\* Record Again: resetRecording.
recorderReset ==
    /\ recorder.mounted
    /\ recorder.hasAudio
    /\ recorder' = [recorder EXCEPT !.hasAudio = FALSE, !.recordingTime = 0,
                                    !.error = ""]
    /\ UNCHANGED <<variant, gatewayVars, routeVars, voice, page>>

InitRecorder ==
    /\ ServerAtRest
    /\ recorder = RecorderMounted
    /\ voice = Unmounted
    /\ page = Unmounted

NextRecorder ==
    \/ recorderStart
    \/ recorderTick
    \/ recorderStop
    \/ recorderReset

SpecRecorder == InitRecorder /\ [][NextRecorder]_vars

\* ------------------------------------------------------------------------
\* The VoiceRecorder component (VoiceRecorder.jsx)
\* ------------------------------------------------------------------------

MaxRecordings == 2
MaxPieces == 2

\* const MAX_DURATION = 90; const MIN_DURATION = 10;
MAX_DURATION == 90
MIN_DURATION == 10

\* transcript.trim().length >= 20
MinTranscriptLength == 20

\* The lengths of the pieces of text the recogniser hands over.
PieceLengths == {9, 20}

\* A string built by `finalTranscript += transcriptPiece + ' '` and trimmed
\* is the sequence of its pieces with one blank between neighbours; a piece
\* carries the number of the recording during which it was recognised.
RECURSIVE PiecesLength(_)
PiecesLength(pieces) ==
    IF pieces = <<>> THEN 0
    ELSE pieces[1].len + PiecesLength(Tail(pieces))

TextLength(pieces) ==
    IF pieces = <<>> THEN 0 ELSE PiecesLength(pieces) + Len(pieces) - 1

\* The component after its mount effect has run.  finalTranscript is the
\* `let finalTranscript` of the mount effect, recognition the state of the
\* recogniser ("ending": it has stopped listening and its end event is
\* due), timers the intervals that are running, timerRef the interval
\* timerRef.current names (0: none was ever set), session the number of
\* recordings started, submitted what onTranscriptReady last received,
\* origin how the latest recording came about ("reset": Record Again was
\* pressed and no recording started since; "again": the recording under
\* way or last made was started after Record Again).
VoiceMounted(supported) ==
    [mounted |-> TRUE, supported |-> supported,
     isRecording |-> FALSE, isRecordingRef |-> FALSE, recordingTime |-> 0,
     transcript |-> <<>>, interim |-> FALSE, finalTranscript |-> <<>>,
     error |-> "", permissionDenied |-> FALSE,
     recognition |-> "idle", timers |-> {}, timerRef |-> 0,
     stream |-> FALSE, session |-> 0, submitted |-> <<>>,
     origin |-> "first"]

\* stopRecording: it reads refs only, so every render's copy acts alike.
VoiceStopRecording(v) ==
    [v EXCEPT !.isRecordingRef = FALSE,
              !.timers = @ \ {v.timerRef},
              !.recognition = IF @ = "started" THEN "ending" ELSE @,
              !.stream = FALSE,
              !.isRecording = FALSE]

\* The record button is rendered and offers startRecording, or the error
\* box offers Try Again.
CanStartRecording(v) ==
    \/ v.error = "" /\ v.transcript = <<>> /\ ~v.isRecording
    \/ v.error # "" /\ v.permissionDenied

\* startRecording.  getUserMedia rejects (NotAllowedError or another
\* error), or it resolves; then the browser has no recogniser, or
\* recognition.start() throws because the recogniser has not ended yet, or
\* the recording and a new interval are started.
voiceStart ==
    /\ voice.mounted
    /\ CanStartRecording(voice)
    /\ voice.session < MaxRecordings
    /\ LET v == [voice EXCEPT !.error = "", !.permissionDenied = FALSE,
                              !.transcript = <<>>, !.interim = FALSE]
       IN  \/ voice' = [v EXCEPT !.permissionDenied = TRUE,
                                 !.error = "microphone"]
           \/ voice' = [v EXCEPT !.error = "start"]
           \/ /\ ~v.supported
              /\ voice' = [v EXCEPT !.error = "unsupported"]
           \/ /\ v.supported
              /\ v.recognition # "idle"
              /\ voice' = [v EXCEPT !.stream = TRUE, !.error = "start"]
           \/ /\ v.supported
              /\ v.recognition = "idle"
              /\ voice' = [v EXCEPT !.stream = TRUE,
                                    !.recognition = "started",
                                    !.isRecordingRef = TRUE,
                                    !.isRecording = TRUE,
                                    !.recordingTime = 0,
                                    !.session = @ + 1,
                                    !.origin = IF @ = "reset" THEN "again"
                                               ELSE "first",
                                    !.timerRef = v.session + 1,
                                    !.timers = @ \cup {v.session + 1}]
    /\ UNCHANGED <<variant, gatewayVars, routeVars, recorder, page>>

\* recognition.onresult with one piece, final or interim:
\* finalTranscript grows by a final piece; setTranscript(finalTranscript.trim()).
voiceResult ==
    /\ voice.mounted
    /\ voice.recognition \in {"started", "ending"}
    /\ \/ \E l \in PieceLengths :
            /\ Len(voice.finalTranscript) < MaxPieces
            /\ LET final == Append(voice.finalTranscript,
                                   [rec |-> voice.session, len |-> l])
               IN  voice' = [voice EXCEPT !.finalTranscript = final,
                                          !.transcript = final,
                                          !.interim = FALSE]
       \/ voice' = [voice EXCEPT !.transcript = voice.finalTranscript,
                                 !.interim = TRUE]
    /\ UNCHANGED <<variant, gatewayVars, routeVars, recorder, page>>

RecognitionErrors == {"no-speech", "not-allowed", "network"}

\* recognition.onerror; the recogniser stops listening after an error.
voiceError ==
    /\ voice.mounted
    /\ voice.recognition = "started"
    /\ \E e \in RecognitionErrors :
         voice' = IF e = "not-allowed"
                  THEN [voice EXCEPT !.recognition = "ending",
                                     !.permissionDenied = TRUE,
                                     !.error = "microphone",
                                     !.isRecordingRef = FALSE,
                                     !.isRecording = FALSE]
                  ELSE [voice EXCEPT !.recognition = "ending"]
    /\ UNCHANGED <<variant, gatewayVars, routeVars, recorder, page>>

\* The recogniser stops listening on its own (a pause in the speech).
voiceSilence ==
    /\ voice.mounted
    /\ voice.recognition = "started"
    /\ voice' = [voice EXCEPT !.recognition = "ending"]
    /\ UNCHANGED <<variant, gatewayVars, routeVars, recorder, page>>

\* recognition.onend: if (isRecordingRef.current) recognition.start();
voiceEnd ==
    /\ voice.mounted
    /\ voice.recognition = "ending"
    /\ voice' = [voice EXCEPT !.recognition =
                    IF voice.isRecordingRef THEN "started" ELSE "idle"]
    /\ UNCHANGED <<variant, gatewayVars, routeVars, recorder, page>>

\* An interval fires: setRecordingTime(prev => { if (prev >= MAX_DURATION)
\* { stopRecording(); return prev; } return prev + 1; })
voiceTick ==
    /\ voice.mounted
    /\ voice.timers # {}
    /\ voice' = IF voice.recordingTime >= MAX_DURATION
                THEN VoiceStopRecording(voice)
                ELSE [voice EXCEPT !.recordingTime = @ + 1]
    /\ UNCHANGED <<variant, gatewayVars, routeVars, recorder, page>>

\* The record button while recording: stopRecording.
voiceStop ==
    /\ voice.mounted
    /\ voice.error = "" /\ voice.isRecording
    /\ voice' = VoiceStopRecording(voice)
    /\ UNCHANGED <<variant, gatewayVars, routeVars, recorder, page>>

\* The preview with Record Again and Submit Reflection is rendered.
PreviewShown(v) == v.transcript # <<>> /\ ~v.isRecording

\* Record Again: handleReset.
voiceReset ==
    /\ voice.mounted
    /\ PreviewShown(voice)
    /\ voice' = [voice EXCEPT !.transcript = <<>>, !.interim = FALSE,
                              !.recordingTime = 0, !.error = "",
                              !.origin = "reset"]
    /\ UNCHANGED <<variant, gatewayVars, routeVars, recorder, page>>

\* const isReady = transcript.trim().length >= 20 && recordingTime >= MIN_DURATION;
IsReady(v) ==
    TextLength(v.transcript) >= MinTranscriptLength
        /\ v.recordingTime >= MIN_DURATION

\* Submit Reflection: handleSubmit hands the transcript to the page, which
\* renders its saving screen; the cleanup of the mount effect clears the
\* interval of timerRef and stops the stream.
voiceSubmit ==
    /\ voice.mounted
    /\ PreviewShown(voice)
    /\ IsReady(voice)
    /\ voice' = [voice EXCEPT !.submitted = voice.transcript,
                              !.mounted = FALSE,
                              !.timers = @ \ {voice.timerRef},
                              !.stream = FALSE]
    /\ UNCHANGED <<variant, gatewayVars, routeVars, recorder, page>>

InitVoice ==
    /\ ServerAtRest
    /\ recorder = Unmounted
    /\ \E supported \in BOOLEAN : voice = VoiceMounted(supported)
    /\ page = Unmounted

NextVoice ==
    \/ voiceStart
    \/ voiceResult
    \/ voiceError
    \/ voiceSilence
    \/ voiceEnd
    \/ voiceTick
    \/ voiceStop
    \/ voiceReset
    \/ voiceSubmit

SpecVoice == InitVoice /\ [][NextVoice]_vars

\* ------------------------------------------------------------------------
\* The Reflect page with text and voice input (part_002 458-785) and the
\* Reflect page with text input only (part_007)
\* ------------------------------------------------------------------------

MaxSaves == 2

\* setInterval(..., 3000); setTimeout(() => clearInterval(pollInterval), 60000)
PollInterval == 3000
PollTimeout == 60000

\* The interval fires at most this often before the timeout is due.
PollLimit == PollTimeout \div PollInterval

\* textInput.trim().length < 20
MinTextLength == 20

\* The lengths of the trimmed text the user has typed.
TypedLengths == {0, 19, 20}

ReflectionIds == 1..MaxSaves

NoPoll == [running |-> FALSE, ticks |-> 0]

\* null, the analysis of a text reflection, or the record of a voice
\* reflection with its id.
NullResult == <<>>
TextAnalysis == <<"text">>
VoiceAnalysis(id) == <<"voice", id>>

\* The page after its first render.  textRequest and saveRequest tell that
\* the fetch of handleTextSubmit or of handleVoiceTranscript is awaited;
\* saved counts the transcripts saved (the ids handed out), status is the
\* analysisStatus of each saved record, seen the status the snapshot
\* listener of currentReflectionId was last called with, listening whether
\* that listener is attached and has not failed, polls the fallback
\* intervals, sinceReset whether Write Another was pressed and nothing
\* submitted since.
PageMounted(voiceCapable) ==
    [mounted |-> TRUE, voiceCapable |-> voiceCapable,
     inputMode |-> "text", isAnalyzing |-> FALSE, isSaving |-> FALSE,
     analysisResult |-> NullResult, analysisStatus |-> "null",
     currentReflectionId |-> 0, error |-> "", showPunchline |-> FALSE,
     textInput |-> 0, textRequest |-> FALSE, saveRequest |-> FALSE,
     saved |-> 0, status |-> [id \in ReflectionIds |-> "none"],
     seen |-> "none", listening |-> FALSE,
     polls |-> [id \in ReflectionIds |-> NoPoll],
     sinceReset |-> FALSE]

\* Which screen the render shows.
Screen(p) ==
    IF p.isSaving THEN "saving"
    ELSE IF p.isAnalyzing THEN "analyzing"
    ELSE IF p.analysisResult # NullResult /\ p.showPunchline THEN "result"
    ELSE "input"

\* The mode buttons: setInputMode.
pageSetMode ==
    /\ page.mounted /\ page.voiceCapable
    /\ Screen(page) = "input"
    /\ \E m \in {"text", "voice"} :
         /\ m # page.inputMode
         /\ page' = [page EXCEPT !.inputMode = m]
    /\ UNCHANGED <<variant, gatewayVars, routeVars, recorder, voice>>

\* The textarea: setTextInput(e.target.value)
pageType ==
    /\ page.mounted
    /\ Screen(page) = "input" /\ page.inputMode = "text"
    /\ \E n \in TypedLengths :
         /\ n # page.textInput
         /\ page' = [page EXCEPT !.textInput = n]
    /\ UNCHANGED <<variant, gatewayVars, routeVars, recorder, voice>>

\* Dismiss: setError(null)
pageDismiss ==
    /\ page.mounted
    /\ Screen(page) = "input" /\ page.error # ""
    /\ page' = [page EXCEPT !.error = ""]
    /\ UNCHANGED <<variant, gatewayVars, routeVars, recorder, voice>>

\* handleTextSubmit up to its await.
HandleTextSubmit(p) ==
    IF p.textInput = 0 \/ p.textInput < MinTextLength
    THEN [p EXCEPT !.error = "at least 20 characters"]
    ELSE [p EXCEPT !.isAnalyzing = TRUE, !.error = "",
                   !.textRequest = TRUE, !.sinceReset = FALSE]

\* Submit Reflection of the text section; the button is disabled while
\* textInput.trim().length < 20.
pageTextSubmit ==
    /\ page.mounted
    /\ Screen(page) = "input" /\ page.inputMode = "text"
    /\ ~(page.textInput < MinTextLength)
    /\ ~page.textRequest
    /\ page' = HandleTextSubmit(page)
    /\ UNCHANGED <<variant, gatewayVars, routeVars, recorder, voice>>

\* The fetch of handleTextSubmit settles: the analysis, or an error
\* (response not ok, success false, or the fetch rejected); finally
\* setIsAnalyzing(false).
pageTextDone ==
    /\ page.mounted
    /\ page.textRequest
    /\ \/ page' = [page EXCEPT !.analysisResult = TextAnalysis,
                               !.showPunchline = TRUE, !.textInput = 0,
                               !.isAnalyzing = FALSE, !.textRequest = FALSE]
       \/ page' = [page EXCEPT !.error = "Analysis failed",
                               !.isAnalyzing = FALSE, !.textRequest = FALSE]
    /\ UNCHANGED <<variant, gatewayVars, routeVars, recorder, voice>>

\* The voice recorder hands over a transcript: handleVoiceTranscript up to
\* its await.
pageVoiceSubmit ==
    /\ page.mounted /\ page.voiceCapable
    /\ Screen(page) = "input" /\ page.inputMode = "voice"
    /\ ~page.saveRequest
    /\ page.saved < MaxSaves
    /\ page' = [page EXCEPT !.isSaving = TRUE, !.error = "",
                            !.saveRequest = TRUE, !.sinceReset = FALSE]
    /\ UNCHANGED <<variant, gatewayVars, routeVars, recorder, voice>>

\* The fetch of save-transcript settles.  Saved: the id is kept, the
\* listener of the effect is attached to the new record, the analyzing
\* screen is shown and the fallback interval and its timeout are set.
\* Otherwise the error is shown.
pageSaveDone ==
    /\ page.mounted
    /\ page.saveRequest
    /\ \/ LET id == page.saved + 1 IN
          page' = [page EXCEPT !.saved = id,
                               !.status[id] = "pending",
                               !.currentReflectionId = id,
                               !.seen = "none", !.listening = TRUE,
                               !.isSaving = FALSE, !.isAnalyzing = TRUE,
                               !.polls[id] = [running |-> TRUE, ticks |-> 0],
                               !.saveRequest = FALSE]
       \/ page' = [page EXCEPT !.error = "Failed to save transcript",
                               !.isSaving = FALSE, !.saveRequest = FALSE]
    /\ UNCHANGED <<variant, gatewayVars, routeVars, recorder, voice>>

\* The analysis of a saved record ends: pending -> completed | failed.
analysisEnds ==
    /\ page.mounted
    /\ \E id \in ReflectionIds, s \in {"completed", "failed"} :
         /\ page.status[id] = "pending"
         /\ page' = [page EXCEPT !.status[id] = s]
    /\ UNCHANGED <<variant, gatewayVars, routeVars, recorder, voice>>

\* The onSnapshot callback with the record as it is now.
pageSnapshot ==
    /\ page.mounted
    /\ page.listening
    /\ LET id == page.currentReflectionId
           s == page.status[id]
           p == [page EXCEPT !.seen = s, !.analysisStatus = s]
       IN  /\ s # page.seen
           /\ page' =
                IF s = "completed"
                THEN [p EXCEPT !.analysisResult = VoiceAnalysis(id),
                               !.isAnalyzing = FALSE,
                               !.showPunchline = TRUE]
                ELSE IF s = "failed"
                THEN [p EXCEPT !.error = "Analysis failed. Your reflection was saved",
                               !.isAnalyzing = FALSE]
                ELSE p
    /\ UNCHANGED <<variant, gatewayVars, routeVars, recorder, voice>>

\* The error callback of onSnapshot: it logs; the listener gets no further
\* snapshot.
pageListenerError ==
    /\ page.mounted
    /\ page.listening
    /\ page' = [page EXCEPT !.listening = FALSE]
    /\ UNCHANGED <<variant, gatewayVars, routeVars, recorder, voice>>

\* A fallback interval fires and its fetch settles: the response is not
\* ok, or it carries the record as it is now.
pagePoll ==
    /\ page.mounted
    /\ \E id \in ReflectionIds :
         /\ page.polls[id].running
         /\ page.polls[id].ticks < PollLimit
         /\ LET p == [page EXCEPT !.polls[id].ticks = @ + 1] IN
            \/ page' = p
            \/ page' =
                 IF page.status[id] = "completed"
                 THEN [p EXCEPT !.polls[id].running = FALSE,
                                !.analysisResult = VoiceAnalysis(id),
                                !.isAnalyzing = FALSE,
                                !.showPunchline = TRUE]
                 ELSE p
    /\ UNCHANGED <<variant, gatewayVars, routeVars, recorder, voice>>

\* The timeout of 60 seconds fires: clearInterval(pollInterval).  The
\* interval has fired at least PollLimit - 1 times by then.
pagePollTimeout ==
    /\ page.mounted
    /\ \E id \in ReflectionIds :
         /\ page.polls[id].running
         /\ page.polls[id].ticks >= PollLimit - 1
         /\ page' = [page EXCEPT !.polls[id].running = FALSE]
    /\ UNCHANGED <<variant, gatewayVars, routeVars, recorder, voice>>

\* Write Another: handleNewReflection; the effect detaches the listener.
pageNewReflection ==
    /\ page.mounted
    /\ Screen(page) = "result"
    /\ page' = [page EXCEPT !.analysisResult = NullResult,
                            !.showPunchline = FALSE, !.error = "",
                            !.textInput = 0,
                            !.currentReflectionId = 0,
                            !.seen = "none", !.listening = FALSE,
                            !.analysisStatus = "null",
                            !.isSaving = FALSE, !.isAnalyzing = FALSE,
                            !.sinceReset = TRUE]
    /\ UNCHANGED <<variant, gatewayVars, routeVars, recorder, voice>>

InitPage ==
    /\ ServerAtRest
    /\ recorder = Unmounted
    /\ voice = Unmounted
    /\ \E voiceCapable \in BOOLEAN : page = PageMounted(voiceCapable)

NextPage ==
    \/ pageSetMode
    \/ pageType
    \/ pageDismiss
    \/ pageTextSubmit
    \/ pageTextDone
    \/ pageVoiceSubmit
    \/ pageSaveDone
    \/ analysisEnds
    \/ pageSnapshot
    \/ pageListenerError
    \/ pagePoll
    \/ pagePollTimeout
    \/ pageNewReflection

SpecPage == InitPage /\ [][NextPage]_vars

\* The browser runs every callback that is due: a fetch settles, a
\* snapshot is delivered, an interval and a timeout fire.  Nothing obliges
\* the user to act or the analysis of a record to end.
SpecPageLive ==
    /\ SpecPage
    /\ WF_vars(pageTextDone)
    /\ WF_vars(pageSaveDone)
    /\ WF_vars(pageSnapshot)
    /\ WF_vars(pagePoll)
    /\ WF_vars(pagePollTimeout)

\* ------------------------------------------------------------------------
\* Properties of retryWithBackoff (SpecRetry)
\* ------------------------------------------------------------------------

\* C1: an invocation that fails with an error carrying no rate-limit signal
\* is the last invocation: the call has ended by throwing that very error,
\* and no sleep was taken after the failure, at whatever attempt index.
C1_FailFast ==
    \A i \in 1..Len(calls) :
        calls[i] = "other" =>
            /\ i = Len(calls)
            /\ pc = "retried"
            /\ retryOut = Threw(raised)
            /\ raised.at = i - 1
            /\ ~CarriesSignal(raised)
            /\ Len(sleeps) = i - 1

\* C1 witness: a failure without signal at attempt index 1, after a
\* rate-limited first attempt, has ended the call.
C1_Witness ==
    /\ op = "retry"
    /\ calls = <<"rateLimit", "other">>
    /\ retryOut.kind = "threw"
    /\ retryOut.error.message = <<"fetch failed">>

\* C2: rate-limited failures are retried up to maxRetries invocations in
\* all; the sleep after the failed attempt with index k is initialDelay*2^k;
\* two rate-limited failures and then a success with maxRetries = 3 return
\* the value after the sleeps initialDelay, 2*initialDelay.
C2_Backoff ==
    /\ Len(calls) <= maxRetries
    /\ \A k \in 0..(Len(sleeps) - 1) :
           /\ sleeps[k + 1] = initialDelay * 2^k
           /\ calls[k + 1] = "rateLimit"
    /\ \A i \in 1..Len(calls) :
           (calls[i] = "rateLimit" /\ i < maxRetries) => Len(sleeps) >= i
    /\ (pc = "retried" /\ retryOut.kind = "threw" /\ CarriesSignal(retryOut.error))
           => Len(calls) = maxRetries
    /\ (maxRetries = 3 /\ calls = <<"rateLimit", "rateLimit", "ok">>)
           => /\ retryOut = Returned(<<"value">>)
              /\ sleeps = <<initialDelay, 2 * initialDelay>>

\* C2 witness: failed twice with a rate-limit signal, then succeeded.
C2_Witness ==
    /\ op = "retry"
    /\ maxRetries = 3
    /\ calls = <<"rateLimit", "rateLimit", "ok">>
    /\ retryOut.kind = "returned"
    /\ Len(sleeps) = 2

\* C3: when each of the maxRetries invocations failed with a rate-limit
\* signal, the call throws the error the last invocation raised.
C3_LastError ==
    (/\ pc = "retried"
     /\ maxRetries >= 1
     /\ Len(calls) = maxRetries
     /\ \A i \in 1..Len(calls) : calls[i] = "rateLimit")
        => /\ retryOut = Threw(raised)
           /\ raised.at = maxRetries - 1

\* C3 witness: three rate-limited attempts out of three, with different
\* messages, and the call over.
C3_Witness ==
    /\ op = "retry"
    /\ pc = "retried"
    /\ maxRetries = 3
    /\ calls = <<"rateLimit", "rateLimit", "rateLimit">>
    /\ retryOut.kind = "threw"
    /\ retryOut.error.message = <<"RESOURCE_EXHAUSTED">>

\* The attempt and sleep budget of one call with maxRetries >= 1: at most
\* maxRetries invocations, at most maxRetries - 1 sleeps, each sleep
\* followed by another invocation, and an ended call has invoked the
\* operation at least once and slept once fewer than it invoked.
AttemptBudget ==
    maxRetries >= 1 =>
        /\ Len(calls) <= maxRetries
        /\ Len(sleeps) <= maxRetries - 1
        /\ Len(sleeps) <= Len(calls)
        /\ pc = "sleep" => Len(calls) < maxRetries
        /\ pc = "retried" =>
               /\ Len(calls) >= 1
               /\ Len(sleeps) < Len(calls)

\* C25: with maxRetries >= 1 the call ends whatever the outcomes of the
\* invocations are; it invokes the operation at least once and at most
\* maxRetries times, sleeps at most maxRetries - 1 times, and never sleeps
\* after the final attempt.
C25_Terminates ==
    /\ []AttemptBudget
    /\ (maxRetries >= 1) => <>(pc = "retried")

\* C25 witness: the full budget was used, four rate-limited invocations
\* and three sleeps, and the call has ended.
C25_Witness ==
    /\ op = "retry"
    /\ pc = "retried"
    /\ maxRetries = MaxRetriesBound
    /\ Len(calls) = maxRetries
    /\ \A i \in 1..Len(calls) : calls[i] = "rateLimit"
    /\ Len(sleeps) = maxRetries - 1

\* ------------------------------------------------------------------------
\* Properties of the gateway operations (SpecGateway)
\* ------------------------------------------------------------------------

\* The call is over and every one of the attempts of the retrier was
\* rejected with a rate-limit signal.
GaveUpRateLimited ==
    /\ variant = "A"
    /\ pc = "done"
    /\ Len(calls) = DefaultMaxRetries
    /\ \A i \in 1..Len(calls) : calls[i] = "rateLimit"

\* C4: when the retrier gives up because every attempt was rate-limited,
\* whatever the signal, the gateway returns the failure tagged isRateLimited
\* with the 'temporarily busy' message.
C4_RateLimitedTag ==
    GaveUpRateLimited =>
        /\ result.kind = "returned"
        /\ ~result.success
        /\ result.isRateLimited
        /\ result.error = BusyMessage

\* C5: analyzeText and analyzeWeekly return a failure after a model call
\* rejected with a rate-limit signal only once the call was attempted 3
\* times.
C5_RetriedBeforeFailure ==
    (/\ op \in {"analyzeText", "analyzeWeekly"}
     /\ pc = "done"
     /\ calls # <<>>
     /\ calls[Len(calls)] = "rateLimit")
        => Len(calls) = DefaultMaxRetries

\* C6: every call of a gateway operation ends by returning a tagged result;
\* none ends by throwing to the caller.
C6_NeverThrows ==
    pc = "done" => result.kind = "returned"

\* C7: analyzeWeekly with fewer than 3 reflections makes no model call and
\* what it returns is a failure; with 3 or more it makes the model call.
\* (A call that ends by throwing is the matter of C6 and is left aside.)
C7_WeeklyGate ==
    (op = "analyzeWeekly" /\ ~input.isNull) =>
        /\ Len(input.items) < 3 =>
              /\ calls = <<>>
              /\ (pc = "done" /\ result.kind = "returned") => ~result.success
        /\ (Len(input.items) >= 3 /\ pc = "done" /\ result.kind = "returned")
              => calls # <<>>

\* C8: analyzeText ends with a failure result or with a success whose data
\* holds the six fields and the transcript of the input.
C8_CompleteRecord ==
    (op = "analyzeText" /\ pc = "done") =>
        /\ result.kind = "returned"
        /\ result.success =>
              /\ result.data.type = "object"
              /\ result.data.fields = SixFields
              /\ result.data.transcript = input.text

\* The model output once the optional fence is removed and the rest trimmed.
Unfenced(text) == IF variant = "A" THEN JsonStrA(text) ELSE JsonStrB(text)

\* C9: when the model output, fence removed and trimmed, is no JSON
\* document, the operation returns a failure; a success carries the value
\* of the document, never empty or partial data.
C9_ParseFailure ==
    (pc = "done" /\ retryOut.kind = "returned") =>
        LET parsed == JSONParse(Unfenced(retryOut.value)) IN
        /\ result.kind = "returned"
        /\ ~parsed.ok => (~result.success /\ result.data = NoValue /\ result.hasError)
        /\ result.success => (parsed.ok /\ result.data = parsed.value)

\* C9 witness: a fenced answer that is no JSON has ended as a failure, in
\* either version.
C9_Witness ==
    /\ pc = "done"
    /\ retryOut.kind = "returned"
    /\ retryOut.value = <<FENCE, WORD, JUNK, FENCE>>
    /\ ~result.success

\* A text that is one JSON document wrapped in one fence, with or without
\* the word json, and the document in it.
IsFenced(text) ==
    /\ Len(text) >= 3
    /\ text[1] = FENCE
    /\ text[Len(text)] = FENCE

Inner(text) ==
    SubSeq(text, IF text[2] = WORD THEN 3 ELSE 2, Len(text) - 1)

\* C10: a model output that is a JSON document by itself is extracted to
\* the direct parse of it, and a document wrapped in one fence to the parse
\* of the inner document.
C10_ExtractIsParse ==
    (pc = "done" /\ retryOut.kind = "returned") =>
        LET text == retryOut.value IN
        /\ JSONParse(text).ok => result = Success(JSONParse(text).value)
        /\ (IsFenced(text) /\ JSONParse(Inner(text)).ok)
              => result = Success(JSONParse(Inner(text)).value)

\* C23: a model call that was rejected without rate-limit signal, or that
\* resolved, is the last model call of the operation; and a failure of an
\* operation none of whose model calls was rejected with a rate-limit signal
\* is returned with a message, the message of the rejection when the model
\* call was rejected, and without the RateLimited tag or text.
C23_OnlyRateLimitIsRateLimited ==
    /\ \A i \in 1..(Len(calls) - 1) : calls[i] = "rateLimit"
    /\ (/\ pc = "done"
        /\ result.kind = "returned"
        /\ ~result.success
        /\ \A i \in 1..Len(calls) : calls[i] # "rateLimit")
       => /\ ~result.isRateLimited
          /\ result.error # BusyMessage
          /\ retryOut.kind = "threw" => result.error = retryOut.error.message
          /\ retryOut.kind = "returned" => result.hasError

\* ------------------------------------------------------------------------
\* Properties of the daily route (SpecRoutes)
\* ------------------------------------------------------------------------

\* The step answers the request of client c.
Answers(c) == reqs'[c] # reqs[c] /\ reqs'[c].pc = "responded"

\* C11: a document enters the store only in the step in which a daily
\* request whose analysis returned success is answered 200, one document per
\* step; every other step of a daily request, and so every daily request
\* that ends in 400 or 500, leaves the store as it was.
C11_PersistOnSuccess ==
    [][/\ (store' \ store # {}) =>
            /\ Cardinality(store' \ store) = 1
            /\ \E c \in Clients :
                 /\ reqs[c].route = "daily"
                 /\ reqs[c].pc = "adding"
                 /\ reqs[c].analysis.kind = "returned"
                 /\ reqs[c].analysis.success
                 /\ Answers(c)
                 /\ reqs'[c].response.status = 200
       /\ \A c \in Clients :
            (/\ reqs'[c] # reqs[c]
             /\ reqs'[c].route = "daily"
             /\ ~(reqs'[c].pc = "responded" /\ reqs'[c].response.status = 200))
            => store' = store
      ]_vars

\* A daily request was answered 500 for a failed analysis while the store
\* holds the document of an earlier request.
C11_Witness ==
    /\ reqs[Observed].route = "daily"
    /\ reqs[Observed].pc = "responded"
    /\ reqs[Observed].response.status = 500
    /\ reqs[Observed].analysis.kind = "returned"
    /\ ~reqs[Observed].analysis.success
    /\ store # {}

\* C12: a daily request without userId, or with neither text nor audio, is
\* answered 400 and no gateway operation is called for it.
C12_BadRequest ==
    \A c \in Clients :
        (/\ reqs[c].route = "daily"
         /\ (reqs[c].userId = "" \/ (~reqs[c].textInput /\ ~reqs[c].hasFile)))
        => /\ reqs[c].pc = "responded"
           /\ reqs[c].response.status = 400
           /\ reqs[c].gwOp = ""
           /\ reqs[c].analysis = NoResult

\* Version A answered 400 to a request that has a userId and no input.
C12_Witness ==
    /\ variant = "A"
    /\ reqs[Observed].route = "daily"
    /\ reqs[Observed].userId # ""
    /\ ~reqs[Observed].textInput
    /\ ~reqs[Observed].hasFile
    /\ reqs[Observed].response.status = 400

\* C13: a daily request goes to the gateway only when it has a userId and
\* exactly one of text and audio.
C13_ExactlyOne ==
    \A c \in Clients :
        (reqs[c].route = "daily" /\ reqs[c].gwOp # "")
        => /\ reqs[c].userId # ""
           /\ reqs[c].textInput # reqs[c].hasFile

\* C14: when the gateway reports a daily analysis as failed for a rate
\* limit, the 500 response carries the flag and the busy message, and the
\* client shows its 'service is busy' message for it.
C14_BusyReported ==
    \A c \in Clients :
        (/\ reqs[c].route = "daily"
         /\ reqs[c].pc = "responded"
         /\ reqs[c].analysis.isRateLimited)
        => /\ reqs[c].response.status = 500
           /\ reqs[c].response.flag
           /\ BusyMessage \in {reqs[c].response.error, reqs[c].response.details}
           /\ ErrorShown(reqs[c].response) = ClientBusyMessage

\* The documents of the store with this id.
Found(id) == {r \in store : r.id = id}

\* C17: a document leaves the store only in the step that answers 200 to a
\* delete request for its id whose userId is the stored one; a delete
\* request for a missing id is answered 404, one whose userId differs from
\* the stored one 403 (500 when the store rejects the read), and both leave
\* the store as it was.
C17_DeleteOwned ==
    [][/\ (store \ store' # {}) =>
            \E c \in Clients :
              /\ reqs[c].route = "delete"
              /\ reqs[c].pc = "deleting"
              /\ Answers(c)
              /\ reqs'[c].response.status = 200
              /\ \A r \in store \ store' :
                   r.id = reqs[c].id /\ r.userId = reqs[c].userId
       /\ \A c \in Clients :
            (reqs'[c] # reqs[c] /\ reqs'[c].route = "delete" /\ reqs[c].pc # "deleting")
            => LET req == reqs'[c] IN
               /\ store' = store
               /\ (Found(req.id) = {})
                    => req.pc = "responded" /\ req.response.status \in {404, 500}
               /\ (\E r \in Found(req.id) : r.userId # req.userId)
                    => req.pc = "responded" /\ req.response.status \in {403, 500}
               /\ (req.pc = "responded" /\ req.response.status = 404)
                    => Found(req.id) = {}
               /\ (req.pc = "responded" /\ req.response.status = 403)
                    => \E r \in Found(req.id) : r.userId # req.userId
      ]_vars

\* A delete request of another user was answered 403 and the document is
\* still in the store.
C17_Witness ==
    /\ reqs[Observed].route = "delete"
    /\ reqs[Observed].response.status = 403
    /\ reqs[Observed].userId # ""
    /\ \E r \in Found(reqs[Observed].id) : r.userId # reqs[Observed].userId

\* C18: the route for one date answers 404 when the store has no record
\* of that user and date (500 when the store rejects the query), and
\* otherwise returns the most recently created of the matching records.
C18_MostRecentForDate ==
    \A c \in Clients :
        (reqs[c].route = "byDate" /\ reqs[c].pc = "responded")
        => LET matches == {r \in store : r.userId = reqs[c].userId
                                         /\ r.date = reqs[c].date}
               docs    == reqs[c].response.docs
           IN  /\ (matches = {}) => reqs[c].response.status \in {404, 500}
               /\ (reqs[c].response.status = 404) => matches = {}
               /\ (reqs[c].response.status = 200)
                    => /\ Len(docs) = 1
                       /\ docs[1] \in matches
                       /\ \A r \in matches : r.createdAt <= docs[1].createdAt

\* ------------------------------------------------------------------------
\* Properties of interleaved daily requests (SpecConcurrent)
\* ------------------------------------------------------------------------

\* The document a daily request that awaits its add is about to store.
DocOf(req, id) ==
    Doc(id, req.userId, IF req.date = "" THEN Today ELSE req.date, req.createdAt)

\* C19: whatever other daily request is under way or has stored a document
\* for the same user and date, the add of a daily request whose analysis
\* succeeded puts one more document with an id never used before into the
\* store, keeps every document that was there, is answered 200 with that
\* id, and leaves the other request as it was.
C19_ConcurrentCreation ==
    [][/\ store \subseteq store'
       /\ \A r \in store' : \A q \in store' : r.id = q.id => r = q
       /\ \A c \in Clients :
            (reqs[c].route = "daily" /\ reqs[c].pc = "adding" /\ reqs'[c] # reqs[c])
            => /\ reqs[c].analysis.success
               /\ \A d \in Clients \ {c} : reqs'[d] = reqs[d]
               /\ \/ /\ store' = store
                     /\ c = Observed => reqs'[c].response.status = 500
                  \/ \E id \in usedIds' \ usedIds :
                       /\ id \notin DocIds(store)
                       /\ store' = store \cup {DocOf(reqs[c], id)}
                       /\ Cardinality(store') = Cardinality(store) + 1
                       /\ c = Observed => /\ reqs'[c].response.status = 200
                                          /\ reqs'[c].response.success
                                          /\ reqs'[c].response.id = id
      ]_vars

\* Two documents of one user and date are in the store, and the one added
\* last, whose id was sent to the observed client, was built first: the
\* other request ran while this one awaited the gateway or the store.
C19_Witness ==
    /\ reqs[Observed].route = "daily"
    /\ reqs[Observed].response.status = 200
    /\ \E r \in store : \E q \in store :
         /\ r.id = reqs[Observed].response.id
         /\ q.id < r.id
         /\ q.userId = r.userId
         /\ q.date = r.date
         /\ q.createdAt > r.createdAt

\* ------------------------------------------------------------------------
\* Properties of the read routes (SpecQuery)
\* ------------------------------------------------------------------------

\* The catch block of the weekly route answered before any analysis: the
\* query of the store was rejected.
StoreFailed(req) ==
    /\ req.response.status = 500
    /\ req.analysis = NoResult
    /\ req.response.error \in {<<"Failed to analyze weekly patterns">>,
                               <<"Weekly analysis failed">>}

\* C15: a weekly request of a user with fewer than 3 stored reflections,
\* none included, is answered success with hasEnoughData = false and a
\* reflectionCount that is the number of the user's reflections, and no
\* gateway operation is called for it.
C15_NotEnoughData ==
    \A c \in Clients :
        (/\ reqs[c].route = "weekly"
         /\ reqs[c].userId # ""
         /\ Cardinality(WhereUser(store, reqs[c].userId)) < WeeklyMinimum)
        => /\ reqs[c].pc = "responded"
           /\ reqs[c].gwOp = ""
           /\ reqs[c].analysis = NoResult
           /\ \/ StoreFailed(reqs[c])
              \/ /\ reqs[c].response.status = 200
                 /\ reqs[c].response.success
                 /\ ~reqs[c].response.hasEnoughData
                 /\ reqs[c].response.hasCount
                 /\ reqs[c].response.count
                        = Cardinality(WhereUser(store, reqs[c].userId))

\* The documents of a snapshot.
Range(seq) == {seq[i] : i \in 1..Len(seq)}

\* seq holds the n most recently created documents of userId in the store,
\* or all of them when there are fewer, and nothing else.
MostRecentOf(seq, userId, n) ==
    LET own == {r \in store : r.userId = userId} IN
    /\ \A i \in 1..Len(seq) : seq[i].userId = userId
    /\ Range(seq) \subseteq store
    /\ Cardinality(Range(seq)) = Len(seq)
    /\ Len(seq) = (IF Cardinality(own) < n THEN Cardinality(own) ELSE n)
    /\ \A r \in own \ Range(seq) : \A h \in Range(seq) : r.createdAt <= h.createdAt

\* C16: the reflections the weekly route hands to the gateway are owned by
\* the userId of the request, are at most 7, and are the most recently
\* created ones of that user.
C16_WeeklyHandsOwnRecent ==
    \A c \in Clients :
        (reqs[c].route = "weekly" /\ reqs[c].gwOp = "analyzeWeekly")
        => /\ Len(reqs[c].handed) <= WeeklyLimit
           /\ MostRecentOf(reqs[c].handed, reqs[c].userId, WeeklyLimit)

\* Seven reflections were handed over for a user who has more than seven,
\* while another user's reflection is newer than one of them.
C16_Witness ==
    /\ reqs[Observed].route = "weekly"
    /\ reqs[Observed].pc = "gateway"
    /\ Len(reqs[Observed].handed) = WeeklyLimit
    /\ Cardinality({r \in store : r.userId = reqs[Observed].userId}) > WeeklyLimit
    /\ \E r \in store : \E h \in Range(reqs[Observed].handed) :
         r.userId # reqs[Observed].userId /\ r.createdAt > h.createdAt

\* The limit a list request asks for: 7 when the query string has none.
AskedLimit(req) == IF req.limit = 0 THEN DefaultLimit ELSE req.limit

C21_RecordImmutable ==
    [][/\ \A r \in store :
            \/ r \in store'
            \/ /\ r.id \notin DocIds(store')
               /\ reqs[Observed].route = "delete"
               /\ reqs[Observed].id = r.id
               /\ Answers(Observed)
               /\ reqs'[Observed].response.status = 200
       /\ \A q \in store' \ store : q.id \notin usedIds
       /\ usedIds \subseteq usedIds'
      ]_vars

\* A record created by the first request is still in the store as created
\* after a second record was created and deleted and the list was read.
C21_Witness ==
    /\ reqs[Observed].route = "list"
    /\ reqs[Observed].response.status = 200
    /\ Cardinality(usedIds) = MaxDocs
    /\ Cardinality(store) = 1
    /\ Len(reqs[Observed].response.docs) = 1
    /\ reqs[Observed].response.docs[1] \in store

\* C22: outside development mode, a request that ended in an exception
\* caught at the boundary (the catch block of a route, the error handling
\* middleware) is answered 500 and the message of the exception is in no
\* field of the body.
C22_NoLeakInProduction ==
    \A c \in Clients :
        (/\ reqs[c].pc = "responded"
         /\ reqs[c].caught # <<>>
         /\ mode # "development")
        => /\ reqs[c].response.status = 500
           /\ reqs[c].response.error # reqs[c].caught
           /\ ~(reqs[c].response.hasDetails
                /\ reqs[c].response.details = reqs[c].caught)

\* ------------------------------------------------------------------------
\* Properties of the AudioRecorder component (SpecRecorder)
\* ------------------------------------------------------------------------

\* C24: the media recorder does not record longer than maxDuration seconds
\* and the second the timer takes to notice: at the tick that finds
\* recordingTime at maxDuration the recording is stopped, isRecording is
\* false and the timer is cleared.
C24_AutoStop ==
    /\ recorder.mediaRecorder = "recording" => recorder.elapsed <= MaxDuration + 1
    /\ recorder.elapsed > MaxDuration => ~recorder.isRecording /\ ~recorder.timer


\* ------------------------------------------------------------------------
\* Properties of the VoiceRecorder component (SpecVoice)
\* ------------------------------------------------------------------------

\* C28: after Record Again and a new startRecording, the transcript shown,
\* and the transcript handed over by Submit Reflection, hold only pieces
\* recognised during the new recording, never a piece recognised during an
\* earlier recording of the same mount.
C28_FreshTranscript ==
    voice.origin = "again" =>
        /\ \A i \in 1..Len(voice.transcript) :
               voice.transcript[i].rec = voice.session
        /\ \A i \in 1..Len(voice.submitted) :
               voice.submitted[i].rec = voice.session

\* C29: the end event of the recogniser restarts it while a recording is
\* in progress and leaves it idle once stopRecording has run or a
\* 'not-allowed' error has arrived; and while isRecording is false no
\* one-second interval is running.
C29_RestartProtocol ==
    /\ [][(voice.recognition = "ending" /\ voice'.recognition # "ending")
            => voice'.recognition =
                   IF voice.isRecording THEN "started" ELSE "idle"]_vars
    /\ [](voice.mounted /\ ~voice.isRecording => voice.timers = {})


\* ------------------------------------------------------------------------
\* Properties of the Reflect page (SpecPage, SpecPageLive)
\* ------------------------------------------------------------------------

\* C26: after Write Another, and until a new reflection is submitted,
\* analysisResult stays null and the result screen stays hidden: no poll
\* and no snapshot listener of the previous submission sets analysisResult
\* or showPunchline.
C26_NoLeftoverCallback ==
    page.sinceReset =>
        /\ page.analysisResult = NullResult
        /\ ~page.showPunchline
        /\ Screen(page) # "result"

\* C27: once a transcript is saved and the analyzing screen is shown,
\* isAnalyzing becomes false again, whether the analysis is seen to
\* complete, seen to fail, or neither is seen before the fallback poll
\* stops.
C27_AnalyzingEnds ==
    [](page.isAnalyzing /\ page.currentReflectionId # 0
           => <>(~page.isAnalyzing))

\* C30: no step sends the text request while the trimmed text is shorter
\* than 20 characters; while the text request is in flight isAnalyzing is
\* true, and the step in which the request completes leaves it false.
C30_TextSubmission ==
    /\ [][/\ (page.textInput < MinTextLength /\ ~page.textRequest)
               => ~page'.textRequest
          /\ (page.textRequest /\ ~page'.textRequest)
               => ~page'.isAnalyzing]_vars
    /\ [](page.textRequest => page.isAnalyzing)

====
